---- MODULE Spec2Model ----
(***************************************************************************)
(* Model of findLocalMinima (Plots/Satellites/NCL_sat_1.py): the three     *)
(* stage finite-difference local-minimum locator used to place the "L"     *)
(* contour labels.  Grid indices are the source's 0-based indices; the     *)
(* pressure field and the coordinate arrays are sequences, read through    *)
(* accessors that add 1.  The derivatives are quotients of integers and    *)
(* the comparison against the threshold is done by cross-multiplication.   *)
(***************************************************************************)
EXTENDS Integers, Sequences, FiniteSets

VARIABLES U, lat, lon, bound, step, pc, x, y, c,
          lonZeros, arraylocations, minima

vars == <<U, lat, lon, bound, step, pc, x, y, c,
          lonZeros, arraylocations, minima>>

(* ------------------------------ bounds -------------------------------- *)

MaxH == 5

MaxW == 5

MaxCoef == 1

MaxStep == 2

(* ------------------------- the input data ----------------------------- *)

\* U.lat / U.lon: evenly spaced coordinate arrays of length n.
CoordArray(n, d) == [k \in 1..n |-> (k - 1) * d]

Spacings == {1, 50}

\* Thresholds as <<numerator, denominator>>: 0.02 (the source's) and 0.5.
Bounds == {<<1, 50>>, <<1, 2>>}

\* One-dimensional profiles of length n; a field is U[i][j] = r[i] + q[j].
Quadratic(n) ==
    {[k \in 1..n |-> a * (k - 1 - k0) * (k - 1 - k0)] :
        a \in 1..MaxCoef, k0 \in 0..(n - 1)}

Linear(n) == {[k \in 1..n |-> p * (k - 1)] : p \in 0..MaxCoef}

Ripple(n) == {[k \in 1..n |-> a * ((k + s) % 2)] : a \in 1..MaxCoef, s \in {0, 1}}

Profiles(n) == Quadratic(n) \cup Linear(n) \cup Ripple(n)

Field(r, q) == [i \in 1..Len(r) |-> [j \in 1..Len(q) |-> r[i] + q[j]]]

\* U = ds.slp[24, :, :] scaled: a rectangular H x W array.
Fields(h, w) == {Field(r, q) : r \in Profiles(h), q \in Profiles(w)}

H == Len(U)

W == Len(U[1])

Abs(v) == IF v < 0 THEN -v ELSE v

(* --------------------------- numpy indexing --------------------------- *)

IndexError == -1

\* Variant: an index past the end is clamped to the last entry instead of
\* raising.
NumpyIndexClamped(idx, size) ==
    IF idx < -size THEN IndexError
    ELSE IF idx >= size THEN size - 1
    ELSE IF idx < 0 THEN idx + size ELSE idx

\* a[idx] on an axis of the given size: negative indices count from the
\* end, anything outside [-size, size) raises IndexError.
NumpyIndex(idx, size) ==
    IF idx >= size \/ idx < -size THEN IndexError
    ELSE IF idx < 0 THEN idx + size ELSE idx

\* U.data[r][k] for resolved indices.
Udata(r, k) == U[r + 1][k + 1]

\* abs(num / den) <= bound in floating point: a zero denominator gives
\* inf or nan, and neither compares <= bound.
WithinBound(num, den) ==
    /\ den # 0
    /\ Abs(num) * bound[2] <= bound[1] * Abs(den)

\* np.diff(U.data)[r][k] and np.diff(londata)[r][k]
DiffU(r, k) == Udata(r, k + 1) - Udata(r, k)

DiffLon(r, k) == lon[k + 2] - lon[k + 1]

\* Variant: the inner loop runs up to and including the diagonal.
RangeEndInclusive(n) == n + 1

\* range(x): the columns the inner loop of stage 1 visits are 0 .. x-1.
RangeEnd(n) == n

\* Variant: the new element is put in front.
ListPrepend(l, e) == <<e>> \o l

\* list.append
ListAppend(l, e) == Append(l, e)

(* ------------------------------- Init ---------------------------------- *)

Init ==
    /\ \E h \in 1..MaxH, w \in 1..MaxW :
          /\ U \in Fields(h, w)
          /\ lat \in {CoordArray(h, d) : d \in Spacings}
          /\ lon \in {CoordArray(w, d) : d \in Spacings}
    /\ bound \in Bounds
    /\ step \in 1..MaxStep
    /\ pc = "stage1"
    /\ x = 0
    /\ y = 0
    /\ c = 1
    /\ lonZeros = <<>>
    /\ arraylocations = <<>>
    /\ minima = <<>>

(* ------------------------------ stage 1 -------------------------------- *)

\* One iteration of "for y in range(x)": read dpdlon[x][y], whose rows
\* have W-1 entries; the read is outside any try block.
Stage1Cell ==
    /\ pc = "stage1"
    /\ x < H
    /\ y < RangeEnd(x)
    /\ IF NumpyIndex(y, W - 1) = IndexError
       THEN /\ pc' = "IndexError"
            /\ UNCHANGED <<x, y, lonZeros>>
       ELSE /\ lonZeros' =
                  LET k == NumpyIndex(y, W - 1)
                  IN  IF WithinBound(DiffU(x, k), DiffLon(x, k))
                      THEN ListAppend(lonZeros, <<x, y>>)
                      ELSE lonZeros
            /\ y' = y + 1
            /\ UNCHANGED <<pc, x>>
    /\ UNCHANGED <<U, lat, lon, bound, step, c, arraylocations, minima>>

\* "for x in range(len(dpdlon))": the inner loop is exhausted.
Stage1NextRow ==
    /\ pc = "stage1"
    /\ x < H
    /\ y >= RangeEnd(x)
    /\ x' = x + 1
    /\ y' = 0
    /\ UNCHANGED <<U, lat, lon, bound, step, pc, c, lonZeros,
                   arraylocations, minima>>

Stage1End ==
    /\ pc = "stage1"
    /\ x >= H
    /\ pc' = "stage2"
    /\ c' = 1
    /\ UNCHANGED <<U, lat, lon, bound, step, x, y, lonZeros,
                   arraylocations, minima>>

(* ------------------------------ stage 2 -------------------------------- *)

\* One iteration of "for coord in lonZeros": the forward difference in
\* latitude; an IndexError in the try block skips the candidate.
Stage2Cand ==
    /\ pc = "stage2"
    /\ c <= Len(lonZeros)
    /\ LET cx == lonZeros[c][1]
           cy == lonZeros[c][2]
           r1 == NumpyIndex(cx + 1, H)
       IN  arraylocations' =
              IF r1 = IndexError THEN arraylocations
              ELSE IF WithinBound(Udata(r1, cy) - Udata(cx, cy),
                                  lat[r1 + 1] - lat[cx + 1])
                   THEN ListAppend(arraylocations, <<cx, cy>>)
                   ELSE arraylocations
    /\ c' = c + 1
    /\ UNCHANGED <<U, lat, lon, bound, step, pc, x, y, lonZeros, minima>>

Stage2End ==
    /\ pc = "stage2"
    /\ c > Len(lonZeros)
    /\ pc' = "stage3"
    /\ c' = 1
    /\ UNCHANGED <<U, lat, lon, bound, step, x, y, lonZeros,
                   arraylocations, minima>>

(* ------------------------------ stage 3 -------------------------------- *)

\* U.data[x+step][y] > U.data[x][y] and U.data[x-step][y] > U.data[x][y]
\* inside try/except: "and" evaluates its right operand only when the left
\* one is true, and an IndexError from either lookup skips the candidate.
IsMinimum(cx, cy) ==
    LET up == NumpyIndex(cx + step, H)
        dn == NumpyIndex(cx - step, H)
    IN  /\ up # IndexError
        /\ Udata(up, cy) > Udata(cx, cy)
        /\ dn # IndexError
        /\ Udata(dn, cy) > Udata(cx, cy)

Stage3Cand ==
    /\ pc = "stage3"
    /\ c <= Len(arraylocations)
    /\ LET cx == arraylocations[c][1]
           cy == arraylocations[c][2]
       IN  minima' = IF IsMinimum(cx, cy)
                     THEN ListAppend(minima, <<-cx, cy - 180>>)
                     ELSE minima
    /\ c' = c + 1
    /\ UNCHANGED <<U, lat, lon, bound, step, pc, x, y, lonZeros,
                   arraylocations>>

\* return minima
Stage3End ==
    /\ pc = "stage3"
    /\ c > Len(arraylocations)
    /\ pc' = "done"
    /\ UNCHANGED <<U, lat, lon, bound, step, x, y, c, lonZeros,
                   arraylocations, minima>>

Next ==
    \/ Stage1Cell
    \/ Stage1NextRow
    \/ Stage1End
    \/ Stage2Cand
    \/ Stage2End
    \/ Stage3Cand
    \/ Stage3End

Spec == Init /\ [][Next]_vars

(* ------------------------- derived notions ---------------------------- *)

Range(s) == {s[k] : k \in 1..Len(s)}

\* The grid cell behind an emitted pair (-x, y - 180).
CellRow(m) == -m[1]

CellCol(m) == m[2] + 180

\* Cell (i, j) has been visited by the stage 1 scan.
Scanned(i, j) == i < x \/ (i = x /\ j < y)

Paraboloid(h, w, a, b, i0, j0) ==
    [i \in 1..h |-> [j \in 1..w |->
        a * (i - 1 - i0) * (i - 1 - i0) + b * (j - 1 - j0) * (j - 1 - j0)]]

IsParaboloid(i0, j0) ==
    \E a \in 1..MaxCoef, b \in 1..MaxCoef : U = Paraboloid(H, W, a, b, i0, j0)

IsMonotone ==
    /\ \A i \in 1..(H - 1), j \in 1..W : U[i + 1][j] > U[i][j]
    /\ \A i \in 1..H, j \in 1..(W - 1) : U[i][j + 1] > U[i][j]

IsConstant == \A i \in 1..H, j \in 1..W : U[i][j] = U[1][1]

\* The locator with explicit bounds checks in place of try/except: a
\* neighbour row is looked up only if its index lies in 0 .. H-1.
InGrid(r) == 0 <= r /\ r < H

ExplicitStage2(cands) ==
    LET Keep(cd) ==
            /\ InGrid(cd[1] + 1)
            /\ WithinBound(Udata(cd[1] + 1, cd[2]) - Udata(cd[1], cd[2]),
                           lat[cd[1] + 2] - lat[cd[1] + 1])
    IN  SelectSeq(cands, Keep)

ExplicitStage3(cands) ==
    LET Keep(cd) ==
            /\ InGrid(cd[1] + step)
            /\ InGrid(cd[1] - step)
            /\ Udata(cd[1] + step, cd[2]) > Udata(cd[1], cd[2])
            /\ Udata(cd[1] - step, cd[2]) > Udata(cd[1], cd[2])
    IN  SelectSeq(cands, Keep)

ExplicitMinima ==
    LET kept == ExplicitStage3(ExplicitStage2(lonZeros))
    IN  [k \in 1..Len(kept) |-> <<-kept[k][1], kept[k][2] - 180>>]

(* ------------------------------ claims --------------------------------- *)

\* C1: boundary policy of stage 3 - an emitted cell (i, j) has both
\* neighbour rows i+step and i-step inside [0, H); a candidate with a
\* neighbour row outside the grid is never emitted.
C1_BoundaryPolicy ==
    \A k \in 1..Len(minima) :
        /\ CellRow(minima[k]) + step < H
        /\ CellRow(minima[k]) - step >= 0

\* C2: worked example - on the 5x5 field (i-2)^2 + (j-2)^2 with unit
\* spaced coordinates, threshold 0.5 and step 1 the locator returns
\* exactly the point of cell (2,2), i.e. (-2, 2-180).
C2_Input ==
    /\ U = Paraboloid(5, 5, 1, 1, 2, 2)
    /\ lat = CoordArray(5, 1)
    /\ lon = CoordArray(5, 1)
    /\ bound = <<1, 2>>
    /\ step = 1

C2_WorkedExample ==
    (pc = "done" /\ C2_Input) => minima = << <<-2, 2 - 180>> >>

\* C3: single isolated minimum - for a paraboloid centred at (i0, j0)
\* with step <= i0 <= H-1-step the returned sequence has exactly one
\* element, and its cell is within 1 of (i0, j0) in both indices.
C3_SingleMinimum ==
    pc = "done" =>
        \A i0 \in step..(H - 1 - step), j0 \in 0..(W - 1) :
            IsParaboloid(i0, j0) =>
                /\ Len(minima) = 1
                /\ Abs(CellRow(minima[1]) - i0) <= 1
                /\ Abs(CellCol(minima[1]) - j0) <= 1

\* C4: monotone field - for a field increasing along both axes the
\* locator returns the empty sequence, whatever threshold and step.
C4_MonotoneEmpty ==
    (pc = "done" /\ IsMonotone) => minima = <<>>

\* C5: constant field - the locator returns the empty sequence and
\* raises no error, for every grid size.
C5_ConstantEmpty ==
    IsConstant => (pc # "IndexError" /\ minima = <<>>)

\* C6: completion without fault - for every grid shape, more rows than
\* columns included, no index error escapes from findLocalMinima.
C6_NoEscapingIndexError ==
    pc # "IndexError"

\* C7: output order - the emitted cells appear in row-major scan order:
\* an earlier element has a smaller row, or the same row and a smaller
\* column, than a later one.
C7_RowMajorOrder ==
    \A a \in 1..Len(minima), b \in 1..Len(minima) :
        a < b =>
            \/ CellRow(minima[a]) < CellRow(minima[b])
            \/ /\ CellRow(minima[a]) = CellRow(minima[b])
               /\ CellCol(minima[a]) < CellCol(minima[b])

C7_Witness ==
    /\ pc = "done"
    /\ \E a \in 1..Len(minima), b \in 1..Len(minima) :
          a < b /\ CellRow(minima[a]) < CellRow(minima[b])
    /\ \E a \in 1..Len(minima), b \in 1..Len(minima) :
          a < b /\ CellRow(minima[a]) = CellRow(minima[b])

C9_RefactoringEquivalence ==
    pc = "done" => minima = ExplicitMinima

====
